---- MODULE Spec2Model ----
(***************************************************************************)
(* django_compositeform/forms.py: the declaration collector                *)
(* (get_declared_composite_fields and the metaclasses that call it) and    *)
(* the lifecycle of one parent form instance (CompositeFormMixin,          *)
(* CompositeModelFormMixin).                                               *)
(*                                                                         *)
(* A SortedDict is a sequence of <<key, value>> pairs in key order.        *)
(* A callable stored on the form (save_m2m, save_forms_m2m, ...) is a      *)
(* record [exists, calls]: whether the attribute is set and, in order, the *)
(* leaf callables one invocation of it runs.                               *)
(***************************************************************************)
EXTENDS Naturals, Sequences, FiniteSets

VARIABLES
    classes,            \* classes built so far by the metaclass, in order of definition
    creation_counter,   \* CompositeField.creation_counter, the class-wide counter
    composite_fields,   \* the form class's composite_fields (lifecycle part)
    pc,                 \* "class" before the form is instantiated, "ready" after
    forms,              \* self.forms
    formsets,           \* self.formsets
    factory_calls,      \* the get_form / get_formset calls made so far, in order
    errors,             \* self._errors (NoErrors before the first full_clean)
    clean,              \* what the last full_clean met: the parent's own errors,
                        \* the composites validated in order, and their validity
    save_m2m,           \* self.save_m2m
    save_forms_m2m,     \* self.save_forms_m2m
    save_formsets_m2m,  \* self.save_formsets_m2m
    base_save_m2m,      \* save_m2m as the host's own save leaves it
    save_log,           \* the calls made by the last save / save_forms / save_formsets
    last,               \* the last operation and what it met
    m2m_log,            \* the leaf callables run by the last callback invocation
    ops                 \* number of operations performed on the form so far

declVars == <<classes, creation_counter>>
formVars == <<composite_fields, pc, forms, formsets, factory_calls, errors, clean,
              save_m2m, save_forms_m2m, save_formsets_m2m, base_save_m2m,
              save_log, last, m2m_log, ops>>
vars == <<classes, creation_counter, composite_fields, pc, forms, formsets,
          factory_calls, errors, clean, save_m2m, save_forms_m2m,
          save_formsets_m2m, base_save_m2m, save_log, last, m2m_log, ops>>

\* ------------------------------------------------------------------ bounds

\* Classes built by the metaclass in one run.
MaxClasses == 3
\* CompositeField instances created in one run.
MaxCounter == 3
\* Bases of one class statement.
MaxBases == 2
\* Operations (full_clean, save, save_forms, save_formsets) on one form.
MaxOps == 2

Names == {"a", "b", "c"}

\* ------------------------------------------------------------- SortedDict

Range(s) == {s[i] : i \in 1..Len(s)}

SeqsOfDistinct(S) == {s \in UNION {[1..n -> S] : n \in 0..Cardinality(S)} :
                        \A i, j \in 1..Len(s) : i # j => s[i] # s[j]}

Keys(d) == [i \in 1..Len(d) |-> d[i][1]]

HasKey(d, k) == \E i \in 1..Len(d) : d[i][1] = k

Get(d, k) == d[CHOOSE i \in 1..Len(d) : d[i][1] = k][2]

IndexOf(s, x) == CHOOSE i \in 1..Len(s) : s[i] = x

\* SortedDict.__setitem__: a new key is appended, a known key keeps its place.
SetItem(d, k, v) ==
    IF HasKey(d, k)
    THEN [i \in 1..Len(d) |-> IF d[i][1] = k THEN <<k, v>> ELSE d[i]]
    ELSE Append(d, <<k, v>>)

\* SortedDict(list of pairs): the place of the first occurrence of a key, the
\* value of its last occurrence.
RECURSIVE SortedDictFrom(_, _)
SortedDictFrom(acc, pairs) ==
    IF pairs = <<>> THEN acc
    ELSE SortedDictFrom(SetItem(acc, Head(pairs)[1], Head(pairs)[2]), Tail(pairs))

SortedDict(pairs) == SortedDictFrom(<<>>, pairs)

\* ------------------------------------------------- declaration collector

\* An object of a class namespace: a CompositeField with its creation_counter,
\* or anything else.
Field(n) == [is_composite |-> TRUE, creation_counter |-> n]
Other == [is_composite |-> FALSE, creation_counter |-> 0]

\* list.sort(key=creation_counter), a stable sort: insertion after the last
\* element whose key is not greater.
RECURSIVE InsertSorted(_, _)
InsertSorted(sorted, p) ==
    IF sorted = <<>> THEN <<p>>
    ELSE IF Head(sorted)[2].creation_counter <= p[2].creation_counter
         THEN <<Head(sorted)>> \o InsertSorted(Tail(sorted), p)
         ELSE <<p>> \o sorted

RECURSIVE SortByCounterFrom(_, _)
SortByCounterFrom(acc, pairs) ==
    IF pairs = <<>> THEN acc
    ELSE SortByCounterFrom(InsertSorted(acc, Head(pairs)), Tail(pairs))

\* Faulty variant: leaves the list in the namespace's iteration order.
SortByCounter_Unsorted(pairs) == pairs

SortByCounter(pairs) == SortByCounterFrom(<<>>, pairs)

\* The comprehension of lines 91-94: the namespace's composite fields, in the
\* namespace's iteration order.
RECURSIVE OwnCompositeFields(_)
OwnCompositeFields(attrs) ==
    IF attrs = <<>> THEN <<>>
    ELSE IF Head(attrs)[2].is_composite
         THEN <<Head(attrs)>> \o OwnCompositeFields(Tail(attrs))
         ELSE OwnCompositeFields(Tail(attrs))

\* hasattr(base, 'composite_fields'): base 0 is a class that never went through
\* the metaclass (object, forms.Form).
HasCompositeFields(base) == base # 0

\* The loop of lines 102-104 over bases[::-1], from the last base to the first.
RECURSIVE PrependBases(_, _, _)
PrependBases(reg, bases, acc) ==
    IF bases = <<>> THEN acc
    ELSE LET base == bases[Len(bases)]
             rest == SubSeq(bases, 1, Len(bases) - 1)
         IN  IF HasCompositeFields(base)
             THEN PrependBases(reg, rest, reg[base].composite_fields \o acc)
             ELSE PrependBases(reg, rest, acc)

get_declared_composite_fields(reg, bases, attrs) ==
    SortedDict(PrependBases(reg, bases, SortByCounter(OwnCompositeFields(attrs))))

\* A class statement: `decl` are the names bound to new CompositeFields, in the
\* order they are written (each instantiation draws the next creation_counter),
\* `iter` the iteration order of the namespace dict; a name of `iter` that is
\* not in `decl` is bound to some other object (at most one such name).
ClassAttrs(decl, iter) ==
    [i \in 1..Len(iter) |->
        <<iter[i],
          IF iter[i] \in Range(decl)
          THEN Field(creation_counter + IndexOf(decl, iter[i]))
          ELSE Other>>]

NameLists == SeqsOfDistinct(Names)

\* The base lists of a class statement: classes built earlier, and 0.
BaseLists == {b \in SeqsOfDistinct(0..(MaxClasses - 1)) : Len(b) <= MaxBases}

\* The bases that carry a composite_fields mapping, and the depth of the new
\* class below the first class built by the metaclass.
CompositeBases(bases) == {b \in Range(bases) : b # 0}

Level(bases) ==
    LET levels == {classes[b].level : b \in CompositeBases(bases)}
    IN  IF levels = {} THEN 1 ELSE 1 + (CHOOSE l \in levels : \A m \in levels : m <= l)

\* DeclerativeCompositeFieldsMetaclass.__new__ and its two variants.
DefineClass(bases, decl, iter) ==
    /\ Len(classes) < MaxClasses
    /\ creation_counter + Len(decl) <= MaxCounter
    /\ LET attrs == ClassAttrs(decl, iter)
       IN  classes' = Append(classes,
                [nbases |-> Cardinality(CompositeBases(bases)),
                 level |-> Level(bases),
                 inherited |-> UNION {Range(Keys(classes[b].composite_fields)) :
                                        b \in CompositeBases(bases)},
                 declared |-> {e \in Range(attrs) : e[2].is_composite},
                 composite_fields |-> get_declared_composite_fields(classes, bases, attrs)])
    /\ creation_counter' = creation_counter + Len(decl)
    /\ UNCHANGED formVars

\* The lifecycle part of the state before any form class is chosen.
NoCallable == [exists |-> FALSE, calls |-> <<>>]
NoErrors == [set |-> FALSE, dict |-> <<>>]
NoClean == [own |-> <<>>, cleaned |-> <<>>, invalid |-> {}]
NoOp == [op |-> "none", commit |-> FALSE, returned |-> <<>>, saved |-> <<>>]
NoInvocation == [callback |-> "none", calls |-> <<>>]

InitDecl ==
    /\ classes = <<>>
    /\ creation_counter = 0
    /\ composite_fields = <<>>
    /\ pc = "class"
    /\ forms = <<>>
    /\ formsets = <<>>
    /\ factory_calls = <<>>
    /\ errors = NoErrors
    /\ clean = NoClean
    /\ save_m2m = NoCallable
    /\ save_forms_m2m = NoCallable
    /\ save_formsets_m2m = NoCallable
    /\ base_save_m2m = NoCallable
    /\ save_log = <<>>
    /\ last = NoOp
    /\ m2m_log = NoInvocation
    /\ ops = 0

NextDecl ==
    /\ Len(classes) < MaxClasses
    /\ \E decl \in NameLists :
         /\ creation_counter + Len(decl) <= MaxCounter
         /\ \E iter \in {i \in NameLists : /\ Range(decl) \subseteq Range(i)
                                            /\ Len(i) <= Len(decl) + 1} :
              \E bases \in {b \in BaseLists : \A i \in 1..Len(b) : b[i] <= Len(classes)} :
                  DefineClass(bases, decl, iter)

SpecDecl == InitDecl /\ [][NextDecl]_vars

\* ------------------------------------------------------ the form class

FormNames == {"a", "b"}

\* A composite field as the mixins see it: the capabilities hasattr finds on
\* it, and whether the composites its factories build carry a save_m2m
\* callable. A field that builds no composite has nothing to save.
FieldObjects ==
    {f \in [get_form : BOOLEAN, get_formset : BOOLEAN, save : BOOLEAN, m2m : BOOLEAN] :
        (~f.get_form /\ ~f.get_formset) => (~f.save /\ ~f.m2m)}

\* The composite_fields a form class can carry: an ordered mapping from
\* distinct names to fields.
FormClasses ==
    {d \in UNION {[1..n -> FormNames \X FieldObjects] : n \in 0..Cardinality(FormNames)} :
        \A i, j \in 1..Len(d) : i # j => d[i][1] # d[j][1]}

\* The composite built by a factory: the sub-form or the sub-formset of a name.
Form(name) == <<"form", name>>
Formset(name) == <<"formset", name>>

\* ------------------------------------------- CompositeFormMixin.__init__

\* Faulty variant: reads the second test as an elif.
InitField_Elif(acc, name, field) ==
    IF field.get_form
    THEN [acc EXCEPT !.forms = SetItem(@, name, Form(name)),
                     !.calls = Append(@, <<"get_form", name>>)]
    ELSE IF field.get_formset
         THEN [acc EXCEPT !.formsets = SetItem(@, name, Formset(name)),
                          !.calls = Append(@, <<"get_formset", name>>)]
         ELSE acc

\* One pass of the loop body of _init_composite_fields.
InitField(acc, name, field) ==
    LET a1 == IF field.get_form
              THEN [acc EXCEPT !.forms = SetItem(@, name, Form(name)),
                               !.calls = Append(@, <<"get_form", name>>)]
              ELSE acc
    IN  IF field.get_formset
        THEN [a1 EXCEPT !.formsets = SetItem(@, name, Formset(name)),
                        !.calls = Append(@, <<"get_formset", name>>)]
        ELSE a1

RECURSIVE InitCompositeFieldsFrom(_, _)
InitCompositeFieldsFrom(acc, items) ==
    IF items = <<>> THEN acc
    ELSE InitCompositeFieldsFrom(InitField(acc, Head(items)[1], Head(items)[2]),
                                 Tail(items))

_init_composite_fields(fields) ==
    InitCompositeFieldsFrom([forms |-> <<>>, formsets |-> <<>>, calls |-> <<>>], fields)

\* CompositeFormMixin.__init__
Instantiate ==
    /\ pc = "class"
    /\ LET built == _init_composite_fields(composite_fields)
       IN  /\ forms' = built.forms
           /\ formsets' = built.formsets
           /\ factory_calls' = built.calls
    /\ pc' = "ready"
    /\ UNCHANGED <<declVars, composite_fields, errors, clean, save_m2m, save_forms_m2m,
                   save_formsets_m2m, base_save_m2m, save_log, last, m2m_log, ops>>

\* ------------------------------------------ CompositeFormMixin.full_clean

\* dict.__setitem__ on the error collection.
DictSet(d, k, v) == [x \in (DOMAIN d) \cup {k} |-> IF x = k THEN v ELSE d[x]]

\* A composite's own error structure, and the two wrappers the parent stores.
ErrorsOf(composite) == [of |-> composite]
ErrorDict(e) == [shape |-> "dict", data |-> e]
ErrorList(e) == [shape |-> "list", data |-> e]

\* What the host's own full_clean can leave in self._errors.
OwnErrors == {<<>>, [k \in {"title"} |-> ErrorList([of |-> <<"parent", "title">>])]}

\* One of the two loops of full_clean: every composite of the mapping is
\* cleaned, an invalid one stores its errors under its key.
RECURSIVE CleanComposites(_, _, _, _)
CleanComposites(acc, items, invalid, shape) ==
    IF items = <<>> THEN acc
    ELSE LET key == Head(items)[1]
             composite == Head(items)[2]
             a1 == [acc EXCEPT !.cleaned = Append(@, composite)]
             a2 == IF composite \in invalid
                   THEN [a1 EXCEPT !.dict =
                            DictSet(@, key, IF shape = "dict"
                                            THEN ErrorDict(ErrorsOf(composite))
                                            ELSE ErrorList(ErrorsOf(composite)))]
                   ELSE a1
         IN  CleanComposites(a2, Tail(items), invalid, shape)

\* `own` is what the host's full_clean finds, `invalid` the composites whose
\* is_valid() answers False.
full_clean(own, invalid) ==
    /\ pc = "ready"
    /\ ops < MaxOps
    /\ LET start == [dict |-> own, cleaned |-> <<>>]
           afterForms == CleanComposites(start, forms, invalid, "dict")
           afterFormsets == CleanComposites(afterForms, formsets, invalid, "list")
       IN  /\ errors' = [set |-> TRUE, dict |-> afterFormsets.dict]
           /\ clean' = [own |-> own, cleaned |-> afterFormsets.cleaned, invalid |-> invalid]
    /\ ops' = ops + 1
    /\ UNCHANGED <<declVars, composite_fields, pc, forms, formsets, factory_calls,
                   save_m2m, save_forms_m2m, save_formsets_m2m, base_save_m2m,
                   save_log, last, m2m_log>>

\* BaseForm.is_valid of a bound form: no entry in the error collection.
is_valid(e) == DOMAIN e = {}

Composites == Range([i \in 1..Len(forms) |-> forms[i][2]])
                \cup Range([i \in 1..Len(formsets) |-> formsets[i][2]])

\* --------------------------------------------- CompositeModelFormMixin

\* The callables one invocation of a callback runs, by who owns them: the
\* host's deferred many-to-many save, or a composite's save_m2m.
Parent == <<"parent", "parent">>

\* What ModelForm.save(commit=False) attaches to the form as save_m2m.
HostDeferred == [exists |-> TRUE, calls |-> <<Parent>>]

\* The object ModelForm.save returns: the instance as the n-th operation on the
\* form saved it.
Instance(n) == <<"instance", n>>

\* The three attributes _extend_save_m2m reads and writes.
Callbacks == [save_m2m |-> save_m2m,
              save_forms_m2m |-> save_forms_m2m,
              save_formsets_m2m |-> save_formsets_m2m]

\* super().save(commit): the host replaces save_m2m only when commit is false.
HostSave(cb, commit) ==
    IF commit THEN cb ELSE [cb EXCEPT !.save_m2m = HostDeferred]

\* The value of super().save(commit) in the n-th operation on the form.
HostSaved(n) == Instance(n)

\* hasattr(composite, 'save_m2m')
HasSaveM2M(composite) == Get(composite_fields, composite[2]).m2m

\* Faulty variant: goes on when no composite has a save_m2m.
_extend_save_m2m_NoReturn(cb, name, composites) ==
    LET additional == SelectSeq(composites, HasSaveM2M)
        original == IF cb.save_m2m.exists THEN cb.save_m2m
                    ELSE [exists |-> TRUE, calls |-> <<>>]
    IN  [cb EXCEPT !.save_m2m = [exists |-> TRUE, calls |-> original.calls \o additional],
                   ![name] = [exists |-> TRUE, calls |-> additional]]

\* Faulty variant: stores the augmented callable under the second name too.
_extend_save_m2m_NamesAugmented(cb, name, composites) ==
    LET additional == SelectSeq(composites, HasSaveM2M)
        original == IF cb.save_m2m.exists THEN cb.save_m2m
                    ELSE [exists |-> TRUE, calls |-> <<>>]
        augmented == [exists |-> TRUE, calls |-> original.calls \o additional]
    IN  IF additional = <<>> THEN cb
        ELSE [cb EXCEPT !.save_m2m = augmented, ![name] = augmented]

\* additional_saves runs the collected save_m2m callables in order;
\* augmented_save_m2m runs the callable found in save_m2m (or nothing, when
\* there was none), then additional_saves.
_extend_save_m2m(cb, name, composites) ==
    LET additional == SelectSeq(composites, HasSaveM2M)
        original == IF cb.save_m2m.exists THEN cb.save_m2m
                    ELSE [exists |-> TRUE, calls |-> <<>>]
        augmented == [exists |-> TRUE, calls |-> original.calls \o additional]
    IN  IF additional = <<>> THEN cb
        ELSE [cb EXCEPT !.save_m2m = augmented,
                        ![name] = [exists |-> TRUE, calls |-> additional]]

\* Faulty variant: takes every composite for saved.
RECURSIVE SaveComposites_KeepsAll(_, _, _)
SaveComposites_KeepsAll(acc, items, commit) ==
    IF items = <<>> THEN acc
    ELSE LET name == Head(items)[1]
             composite == Head(items)[2]
             field == Get(composite_fields, name)
             a1 == IF field.save
                   THEN [acc EXCEPT !.log = Append(@, <<"field.save", composite, commit>>)]
                   ELSE acc
         IN  SaveComposites_KeepsAll([a1 EXCEPT !.saved = Append(@, composite)],
                                     Tail(items), commit)

\* The loop of save_forms and of save_formsets: field.save on every composite
\* whose field has one, collected in saved_composites.
RECURSIVE SaveComposites(_, _, _)
SaveComposites(acc, items, commit) ==
    IF items = <<>> THEN acc
    ELSE LET name == Head(items)[1]
             composite == Head(items)[2]
             field == Get(composite_fields, name)
         IN  IF field.save
             THEN SaveComposites(
                    [acc EXCEPT !.log = Append(@, <<"field.save", composite, commit>>),
                                !.saved = Append(@, composite)],
                    Tail(items), commit)
             ELSE SaveComposites(acc, Tail(items), commit)

\* save_forms and save_formsets on the running pair [cb, log].
SaveForms(run, commit) ==
    LET r == SaveComposites([log |-> run.log, saved |-> <<>>], forms, commit)
    IN  [cb |-> _extend_save_m2m(run.cb, "save_forms_m2m", r.saved), log |-> r.log]

SaveFormsets(run, commit) ==
    LET r == SaveComposites([log |-> run.log, saved |-> <<>>], formsets, commit)
    IN  [cb |-> _extend_save_m2m(run.cb, "save_formsets_m2m", r.saved), log |-> r.log]

\* Faulty variant: saves the formsets before the forms.
SaveBody_FormsetsFirst(run, commit) == SaveForms(SaveFormsets(run, commit), commit)

\* Lines 203-204 of save.
SaveBody(run, commit) == SaveFormsets(SaveForms(run, commit), commit)

SetCallbacks(cb) ==
    /\ save_m2m' = cb.save_m2m
    /\ save_forms_m2m' = cb.save_forms_m2m
    /\ save_formsets_m2m' = cb.save_formsets_m2m

\* CompositeModelFormMixin.save
save(commit) ==
    /\ pc = "ready"
    /\ ops < MaxOps
    /\ LET hosted == HostSave(Callbacks, commit)
           done == SaveBody([cb |-> hosted, log |-> <<<<"super.save", commit>>>>], commit)
       IN  /\ SetCallbacks(done.cb)
           /\ save_log' = done.log
           /\ base_save_m2m' = HostSave([save_m2m |-> base_save_m2m], commit).save_m2m
           /\ last' = LET saved_obj == HostSaved(ops + 1)
                       IN  [op |-> "save", commit |-> commit,
                            returned |-> saved_obj, saved |-> HostSaved(ops + 1)]
    /\ m2m_log' = NoInvocation
    /\ ops' = ops + 1
    /\ UNCHANGED <<declVars, composite_fields, pc, forms, formsets, factory_calls,
                   errors, clean>>

\* CompositeModelFormMixin.save_forms, called on its own
save_forms(commit) ==
    /\ pc = "ready"
    /\ ops < MaxOps
    /\ LET done == SaveForms([cb |-> Callbacks, log |-> <<>>], commit)
       IN  /\ SetCallbacks(done.cb)
           /\ save_log' = done.log
    /\ last' = [op |-> "save_forms", commit |-> commit,
                returned |-> <<>>, saved |-> <<>>]
    /\ m2m_log' = NoInvocation
    /\ ops' = ops + 1
    /\ UNCHANGED <<declVars, composite_fields, pc, forms, formsets, factory_calls,
                   errors, clean, base_save_m2m>>

\* CompositeModelFormMixin.save_formsets, called on its own
save_formsets(commit) ==
    /\ pc = "ready"
    /\ ops < MaxOps
    /\ LET done == SaveFormsets([cb |-> Callbacks, log |-> <<>>], commit)
       IN  /\ SetCallbacks(done.cb)
           /\ save_log' = done.log
    /\ last' = [op |-> "save_formsets", commit |-> commit,
                returned |-> <<>>, saved |-> <<>>]
    /\ m2m_log' = NoInvocation
    /\ ops' = ops + 1
    /\ UNCHANGED <<declVars, composite_fields, pc, forms, formsets, factory_calls,
                   errors, clean, base_save_m2m>>

\* An invocation of one of the callables stored on the form: what it runs.
Invoke(name, callable) ==
    /\ pc = "ready"
    /\ callable.exists
    /\ m2m_log' = [callback |-> name, calls |-> callable.calls]
    /\ UNCHANGED <<declVars, composite_fields, pc, forms, formsets, factory_calls,
                   errors, clean, save_m2m, save_forms_m2m, save_formsets_m2m,
                   base_save_m2m, save_log, last, ops>>

call_save_m2m == Invoke("save_m2m", save_m2m)
call_save_forms_m2m == Invoke("save_forms_m2m", save_forms_m2m)
call_save_formsets_m2m == Invoke("save_formsets_m2m", save_formsets_m2m)

\* ------------------------------------------------------- specification

Init ==
    /\ classes = <<>>
    /\ creation_counter = 0
    /\ composite_fields \in FormClasses
    /\ pc = "class"
    /\ forms = <<>>
    /\ formsets = <<>>
    /\ factory_calls = <<>>
    /\ errors = NoErrors
    /\ clean = NoClean
    /\ save_m2m = NoCallable
    /\ save_forms_m2m = NoCallable
    /\ save_formsets_m2m = NoCallable
    /\ base_save_m2m = NoCallable
    /\ save_log = <<>>
    /\ last = NoOp
    /\ m2m_log = NoInvocation
    /\ ops = 0

Next ==
    \/ Instantiate
    \/ \E own \in OwnErrors, invalid \in SUBSET Composites : full_clean(own, invalid)
    \/ \E commit \in BOOLEAN : save(commit)
    \/ \E commit \in BOOLEAN : save_forms(commit)
    \/ \E commit \in BOOLEAN : save_formsets(commit)
    \/ call_save_m2m
    \/ call_save_forms_m2m
    \/ call_save_formsets_m2m

Spec == Init /\ [][Next]_vars

\* ================================================================ claims

\* ---- C1

ClassOrdered(c) ==
    LET keys == Keys(c.composite_fields)
        own == {e[1] : e \in c.declared}
        new == own \ c.inherited
        counter(n) == (CHOOSE e \in c.declared : e[1] = n)[2].creation_counter
    IN  /\ \A i, j \in 1..Len(keys) : i # j => keys[i] # keys[j]
        /\ Range(keys) = c.inherited \cup own
        /\ \A i, j \in 1..Len(keys) :
             (keys[i] \in c.inherited /\ keys[j] \in new) => i < j
        /\ \A i, j \in 1..Len(keys) :
             (i < j /\ keys[i] \in new /\ keys[j] \in new)
                => counter(keys[i]) < counter(keys[j])

\* C1: every class built by get_declared_composite_fields carries each field
\* name exactly once, every name inherited from a base before every name the
\* class adds itself, and the names it adds in increasing creation_counter.
C1_DeclaredOrder == \A k \in 1..Len(classes) : ClassOrdered(classes[k])

\* A class two levels below the first with two composite bases, a class that
\* adds a field to inherited ones, and a class whose own two fields are
\* declared against the alphabet.
C1_Witness ==
    /\ \E k \in 1..Len(classes) :
         /\ classes[k].level = 3
         /\ classes[k].nbases = 2
         /\ Len(classes[k].composite_fields) = 3
    /\ \E k \in 1..Len(classes) :
         /\ classes[k].inherited # {}
         /\ {e[1] : e \in classes[k].declared} \ classes[k].inherited # {}
    /\ \E k \in 1..Len(classes) :
         /\ Cardinality(classes[k].declared) = 2
         /\ Keys(classes[k].composite_fields) = <<"c", "a">>

\* ---- C2

Count(s, x) == Cardinality({i \in 1..Len(s) : s[i] = x})

FieldNames == Keys(composite_fields)

NamesWithForm == Keys(SelectSeq(composite_fields, LAMBDA it : it[2].get_form))
NamesWithFormset == Keys(SelectSeq(composite_fields, LAMBDA it : it[2].get_formset))

\* C2: after instantiation self.forms holds exactly one sub-form per field
\* with get_form and self.formsets one sub-formset per field with get_formset,
\* keyed by name in composite_fields order; a field with neither is in neither,
\* and each factory was called exactly once.
C2_OnePerCapability ==
    pc = "ready" =>
        /\ forms = [i \in 1..Len(NamesWithForm) |->
                        <<NamesWithForm[i], Form(NamesWithForm[i])>>]
        /\ formsets = [i \in 1..Len(NamesWithFormset) |->
                        <<NamesWithFormset[i], Formset(NamesWithFormset[i])>>]
        /\ \A n \in FormNames :
             /\ Count(factory_calls, <<"get_form", n>>)
                    = IF n \in Range(NamesWithForm) THEN 1 ELSE 0
             /\ Count(factory_calls, <<"get_formset", n>>)
                    = IF n \in Range(NamesWithFormset) THEN 1 ELSE 0
        /\ Len(factory_calls) = Len(NamesWithForm) + Len(NamesWithFormset)

\* An instantiated form whose first field has both factories and whose second
\* has none.
C2_Witness ==
    /\ pc = "ready"
    /\ Len(composite_fields) = 2
    /\ composite_fields[1][2].get_form /\ composite_fields[1][2].get_formset
    /\ ~composite_fields[2][2].get_form /\ ~composite_fields[2][2].get_formset
    /\ Len(forms) = 1 /\ Len(formsets) = 1

\* ---- C3

\* C3: after full_clean an invalid sub-formset has a list-shaped entry under
\* its name and an invalid sub-form a dict-shaped one, whatever capabilities
\* the fields have.
C3_ErrorShapes ==
    errors.set =>
        \A c \in clean.invalid :
            /\ c[2] \in DOMAIN errors.dict
            /\ errors.dict[c[2]].shape = (IF c[1] = "formset" THEN "list" ELSE "dict")

\* ---- C4

Values(d) == [i \in 1..Len(d) |-> d[i][2]]

\* C4: full_clean validates every sub-form and then every sub-formset; when
\* the parent's own fields are valid, a composite's name has an entry exactly
\* when that composite is invalid, the entry equals the composite's own errors,
\* and is_valid() is false as soon as one entry exists.
C4_EntriesMatchComposites ==
    errors.set =>
        /\ clean.cleaned = Values(forms) \o Values(formsets)
        /\ clean.own = <<>> =>
             \A c \in Composites :
                /\ c[2] \in DOMAIN errors.dict <=> c \in clean.invalid
                /\ c \in clean.invalid => errors.dict[c[2]].data = ErrorsOf(c)
        /\ DOMAIN errors.dict # {} => ~is_valid(errors.dict)

\* ---- C5

\* Position of a composite's field in composite_fields.
FieldIndex(composite) == IndexOf(FieldNames, composite[2])

FieldOf(composite) == Get(composite_fields, composite[2])

SavedForms == SelectSeq(Values(forms), LAMBDA c : FieldOf(c).save)
SavedFormsets == SelectSeq(Values(formsets), LAMBDA c : FieldOf(c).save)

SaveCalls(composites, commit) ==
    [i \in 1..Len(composites) |-> <<"field.save", composites[i], commit>>]

\* C5 as claimed: save(commit=True) runs the parent's save once, then
\* field.save on every composite whose field has save, in composite_fields
\* order, and returns the parent's saved object.
C5_DeclarationOrder ==
    (last.op = "save" /\ last.commit) =>
        /\ Len(save_log) >= 1
        /\ save_log[1] = <<"super.save", TRUE>>
        /\ \A c \in Composites :
             Count(save_log, <<"field.save", c, TRUE>>) = (IF FieldOf(c).save THEN 1 ELSE 0)
        /\ Len(save_log) = 1 + Cardinality({c \in Composites : FieldOf(c).save})
        /\ \A i, j \in 2..Len(save_log) :
             i < j => FieldIndex(save_log[i][2]) <= FieldIndex(save_log[j][2])
        /\ last.returned = last.saved

\* C5 amended: save(commit=True) runs the parent's save once, then field.save
\* on every sub-form whose field has save, in composite_fields order, then on
\* every sub-formset whose field has save, in composite_fields order, and
\* returns the parent's saved object.
C5_FormsThenFormsets ==
    (last.op = "save" /\ last.commit) =>
        /\ save_log = <<<<"super.save", TRUE>>>>
                        \o SaveCalls(SavedForms, TRUE) \o SaveCalls(SavedFormsets, TRUE)
        /\ last.returned = last.saved

\* A committed save of a form whose first field builds a saved sub-formset and
\* whose second builds a saved sub-form.
C5_Witness ==
    /\ last.op = "save" /\ last.commit
    /\ Len(composite_fields) = 2
    /\ SavedFormsets = <<Formset(FieldNames[1])>>
    /\ SavedForms = <<Form(FieldNames[2])>>
    /\ Len(save_log) = 3

\* ---- C6

DeferredForms == SelectSeq(SavedForms, HasSaveM2M)
DeferredFormsets == SelectSeq(SavedFormsets, HasSaveM2M)

\* C6 as claimed: after save(commit=False), one invocation of save_m2m runs
\* the parent's deferred save first and then the save_m2m of every composite
\* that has one, in composite_fields order.
C6_EveryCompositeInDeclarationOrder ==
    (last.op = "save" /\ ~last.commit /\ m2m_log.callback = "save_m2m") =>
        /\ Len(m2m_log.calls) >= 1
        /\ m2m_log.calls[1] = Parent
        /\ \A c \in Composites :
             Count(m2m_log.calls, c) = (IF HasSaveM2M(c) THEN 1 ELSE 0)
        /\ Len(m2m_log.calls) = 1 + Cardinality({c \in Composites : HasSaveM2M(c)})
        /\ \A i, j \in 2..Len(m2m_log.calls) :
             i < j => FieldIndex(m2m_log.calls[i]) <= FieldIndex(m2m_log.calls[j])

\* C6 amended: after save(commit=False), one invocation of save_m2m runs the
\* parent's deferred save first, then the save_m2m of every sub-form that the
\* save call saved and that has one, in composite_fields order, then the
\* save_m2m of every such sub-formset, in composite_fields order.
C6_SavedFormsThenFormsets ==
    (last.op = "save" /\ ~last.commit /\ m2m_log.callback = "save_m2m") =>
        m2m_log.calls = <<Parent>> \o DeferredForms \o DeferredFormsets

\* An uncommitted save followed by save_m2m, on a form with a saved sub-form
\* and a saved sub-formset that both carry save_m2m.
C6_Witness ==
    /\ last.op = "save" /\ ~last.commit
    /\ m2m_log.callback = "save_m2m"
    /\ DeferredForms # <<>>
    /\ DeferredFormsets # <<>>
    /\ Len(m2m_log.calls) = 3

\* ---- C7

\* C7: a form whose class declares no composite field behaves as the base
\* form: full_clean leaves the host's own errors and is_valid, save runs the
\* parent's save alone and returns its object, and save_m2m, save_forms_m2m and
\* save_formsets_m2m are neither replaced nor created.
C7_NoCompositesIsBaseForm ==
    composite_fields = <<>> =>
        /\ errors.set => /\ errors.dict = clean.own
                         /\ is_valid(errors.dict) = is_valid(clean.own)
        /\ last.op = "save" => /\ save_log = <<<<"super.save", last.commit>>>>
                               /\ last.returned = last.saved
        /\ save_m2m = base_save_m2m
        /\ ~save_forms_m2m.exists
        /\ ~save_formsets_m2m.exists

\* A form without composite fields that was cleaned, saved uncommitted and
\* whose save_m2m was invoked.
C7_Witness ==
    /\ composite_fields = <<>>
    /\ errors.set
    /\ last.op = "save" /\ ~last.commit
    /\ m2m_log = [callback |-> "save_m2m", calls |-> <<Parent>>]

\* ---- C8

\* C8: when one save call augments save_m2m for sub-forms and for
\* sub-formsets, one invocation of save_m2m runs the parent's original
\* deferred save, then the save_m2m of the saved sub-forms, then those of the
\* saved sub-formsets, each exactly once.
C8_OriginalFormsFormsetsOnce ==
    (/\ last.op = "save"
     /\ DeferredForms # <<>>
     /\ DeferredFormsets # <<>>
     /\ m2m_log.callback = "save_m2m") =>
        m2m_log.calls = base_save_m2m.calls \o DeferredForms \o DeferredFormsets

\* ---- C9

\* C9 as claimed: after both augmentations, save_forms_m2m invoked on its own
\* also runs the sub-formsets' save_m2m.
C9_FormsCallbackRunsFormsets ==
    (/\ last.op = "save"
     /\ DeferredForms # <<>>
     /\ DeferredFormsets # <<>>
     /\ m2m_log.callback = "save_forms_m2m") =>
        \A c \in Range(DeferredFormsets) : c \in Range(m2m_log.calls)

\* C9 amended: after both augmentations, save_forms_m2m invoked on its own
\* runs the save_m2m of the saved sub-forms, in composite_fields order, and of
\* no sub-formset: the second augmentation replaces save_m2m, not
\* save_forms_m2m.
C9_FormsCallbackRunsFormsOnly ==
    (/\ save_forms_m2m.exists
     /\ save_formsets_m2m.exists
     /\ m2m_log.callback = "save_forms_m2m") =>
        /\ m2m_log.calls = DeferredForms
        /\ \A c \in Range(m2m_log.calls) : c[1] = "form"

\* A save that augmented for sub-forms and for sub-formsets, followed by an
\* invocation of save_forms_m2m.
C9_Witness ==
    /\ last.op = "save"
    /\ DeferredForms # <<>>
    /\ DeferredFormsets # <<>>
    /\ save_forms_m2m.exists
    /\ save_formsets_m2m.exists
    /\ m2m_log.callback = "save_forms_m2m"

\* ---- C10

\* C10: whatever save, save_forms and save_formsets calls came before, one
\* invocation of save_m2m runs each composite's save_m2m at most once.
C10_AtMostOncePerInvocation ==
    m2m_log.callback = "save_m2m" =>
        \A c \in Composites : Count(m2m_log.calls, c) <= 1

====
